---- MODULE Spec2Model ----
(***************************************************************************)
(* Model of the code-checker check pipeline:                               *)
(*   GitService.fetchRepo / fetchDirectory     (git.service.ts)            *)
(*   PlaywrightService.checkHtmlFile / checks  (playwright.service.ts)     *)
(*   HtmlValidatorService.validateHtml         (html-validator.service.ts) *)
(*   CodeCheckService.checkRepo / summarize    (code-check.service.ts)     *)
(*   CodeCheckController.checkRepo             (controller, error mapping) *)
(*                                                                         *)
(* Every await of the code is one step of a run; several runs share the    *)
(* one browser instance of PlaywrightService.  JavaScript strings are      *)
(* sequences of one-character strings where the code inspects them (file   *)
(* names, markup) and sequences of text pieces where the code only builds  *)
(* them (messages).  An absent optional field (message?, details?) is the  *)
(* empty sequence.                                                         *)
(***************************************************************************)
EXTENDS Integers, Sequences, FiniteSets, TLC

VARIABLES
    browser,       \* the shared Browser of PlaywrightService: "up" or "down"
    repo,          \* per run: the remote tree behind the repository url
    web,           \* the remote documents behind the download urls
    pc,            \* per run: position of checkRepo (the await it is at)
    fstack,        \* per run: the fetchDirectory call stack
    fdir,          \* per run: the directory whose listing is being awaited
    htmlFiles,     \* per run: files.filter(type === 'HTML')
    idx,           \* per run: 1-based position of the for-of loop
    page,          \* per run: local `page` of checkHtmlFile: "null","open","closed"
    response,      \* per run: local `response` of checkHtmlFile
    content,       \* per run: local `decodedContent` of checkHtmlFile
    checks,        \* per run: the partly built `checks` object of runChecks
    exc,           \* per run: the exception in flight inside checkHtmlFile
    checkResults,  \* per run: local `checkResults` of checkRepo
    result,        \* per run: the RepoCheckResult returned by checkRepo
    error,         \* per run: the error thrown by checkRepo
    httpStatus,    \* per run: the status the controller answers with
    openPages,     \* per run: pages opened by the run and not yet released
    faults,        \* per run: number of injected non-fatal failures so far
    log            \* per run: what happened, for stating the properties

vars == <<browser, repo, web, pc, fstack, fdir, htmlFiles, idx, page, response,
          content, checks, exc, checkResults, result, error, httpStatus,
          openPages, faults, log>>

----------------------------------------------------------------------------
(* Bounds *)

\* non-fatal failures (timeouts, validator outages, listing failures are
\* not counted) injected into one run
MaxFaults == 2

\* the interleaved runs
Runs == {"r1", "r2"}

----------------------------------------------------------------------------
(* Strings *)

ToLowerChar(c) ==
    CASE c = "H" -> "h" [] c = "T" -> "t" [] c = "M" -> "m" [] c = "L" -> "l"
      [] c = "C" -> "c" [] c = "S" -> "s" [] c = "J" -> "j"
      [] c = "I" -> "i" [] c = "A" -> "a" [] c = "G" -> "g" [] c = "E" -> "e"
      [] c = "P" -> "p" [] c = "U" -> "u" [] c = "R" -> "r"
      [] OTHER -> c

toLowerCase(s) == [i \in 1..Len(s) |-> ToLowerChar(s[i])]

endsWith(s, suffix) ==
    /\ Len(s) >= Len(suffix)
    /\ SubSeq(s, Len(s) - Len(suffix) + 1, Len(s)) = suffix

startsWithAt(s, i, t) ==
    /\ i + Len(t) - 1 <= Len(s)
    /\ SubSeq(s, i, i + Len(t) - 1) = t

\* String.prototype.includes on character strings
includes(s, t) == \E i \in 1..(Len(s) + 1) : startsWithAt(s, i, t)

\* String.prototype.includes on a message built of text pieces: the searched
\* text is always one whole piece of the messages the program handles
messageIncludes(msg, piece) == \E i \in 1..Len(msg) : msg[i] = piece

\* filename.split('.').pop(): the part after the last '.', or the whole
\* string when there is no '.'
RECURSIVE lastDot(_, _)
lastDot(s, i) ==
    IF i = 0 THEN 0 ELSE IF s[i] = "." THEN i ELSE lastDot(s, i - 1)

splitPop(s) == SubSeq(s, lastDot(s, Len(s)) + 1, Len(s))

----------------------------------------------------------------------------
(* Errors: app.errors.ts, and the fields checkRepo looks at *)

NoError == [kind |-> "none", message |-> <<>>, code |-> "none", responseStatus |-> 0]

\* new Error(message)
PlainError(message) ==
    [kind |-> "Error", message |-> message, code |-> "none", responseStatus |-> 0]

\* the rejection of fetch() when the host cannot be resolved
FetchFailed ==
    [kind |-> "TypeError", message |-> <<"fetch failed">>, code |-> "ENOTFOUND",
     responseStatus |-> 0]

\* new HttpException(message, status): `response` is the message string, so
\* error.response?.status is undefined, and there is no `code`
HttpException(message, status) ==
    [kind |-> "HttpException", message |-> message, code |-> "none",
     responseStatus |-> 0]

BrowserError(message) ==
    [kind |-> "BrowserError", message |-> message, code |-> "none", responseStatus |-> 0]

RepoNotFoundError ==
    [kind |-> "RepoNotFoundError", message |-> <<"Repository not found">>,
     code |-> "none", responseStatus |-> 0]

NetworkError ==
    [kind |-> "NetworkError", message |-> <<"Network error occurred">>,
     code |-> "none", responseStatus |-> 0]

UnknownError(message) ==
    [kind |-> "UnknownError", message |-> message, code |-> "none", responseStatus |-> 0]

\* what a Playwright call rejects with once the browser is closed or crashed
TargetClosed == PlainError(<<"Target closed">>)

\* a failure of one call that leaves the browser usable
Timeout == PlainError(<<"Timeout 30000ms exceeded">>)

----------------------------------------------------------------------------
(* The remote side: documents behind download urls, repository trees *)

\* what the browser and the validator see of one remote document: the HTTP
\* answer, the text, and the facts of the DOM the text parses to
DocGood ==
    [ok |-> TRUE, statusText |-> "OK",
     text |-> <<"&", "l", "t", ";", "h", "1", "&", "g", "t", ";">>,
     h1 |-> 1, h2 |-> 2,
     imgs |-> << [hasAlt |-> TRUE, alt |-> <<"c", "a", "t">>] >>,
     overflow |-> {},
     messages |-> << [type |-> "info", lastLine |-> 1, message |-> "Trailing slash"] >>]

DocBad ==
    [ok |-> TRUE, statusText |-> "OK",
     text |-> <<"<", "h", "1", ">", "&", "a", "m", "p", ";", "l", "t", ";">>,
     h1 |-> 2, h2 |-> 0,
     imgs |-> << [hasAlt |-> FALSE, alt |-> <<>>] >>,
     overflow |-> {330, 340},
     messages |-> << [type |-> "error", lastLine |-> 3, message |-> "Stray end tag"],
                     [type |-> "info", lastLine |-> 4, message |-> "Trailing slash"],
                     [type |-> "error", lastLine |-> 7, message |-> "Duplicate ID"] >>]

DocMixed ==
    [ok |-> TRUE, statusText |-> "OK",
     text |-> <<"<", "p", ">", "&", "#", "3", "9", ";">>,
     h1 |-> 1, h2 |-> 1,
     imgs |-> << [hasAlt |-> TRUE, alt |-> <<"d", "o", "g">>],
                 [hasAlt |-> TRUE, alt |-> <<"A", " ", "P", "i", "c", "t", "u", "r", "e">>],
                 [hasAlt |-> TRUE, alt |-> <<" ">>] >>,
     overflow |-> {},
     messages |-> << [type |-> "warning", lastLine |-> 2, message |-> "Consider lang"],
                     [type |-> "error", lastLine |-> 5, message |-> "Unclosed element"] >>]

DocGone ==
    [ok |-> FALSE, statusText |-> "Not Found", text |-> <<>>, h1 |-> 0, h2 |-> 0,
     imgs |-> <<>>, overflow |-> {}, messages |-> <<>>]

Web(url) ==
    CASE url = "raw/good" -> DocGood
      [] url = "raw/bad" -> DocBad
      [] url = "raw/mixed" -> DocMixed
      [] OTHER -> DocGone

Urls == {"raw/good", "raw/bad", "raw/mixed", "raw/gone", "raw/any"}

\* the documents behind the download urls of the repositories in Repos
Published == [url \in Urls |-> Web(url)]

File(name, path, url) ==
    [type |-> "file", name |-> name, path |-> path, download_url |-> url,
     children |-> <<>>]

Dir(name, path, children) ==
    [type |-> "dir", name |-> name, path |-> path, download_url |-> "",
     children |-> children]

Other(type, name, path) ==
    [type |-> type, name |-> name, path |-> path, download_url |-> "",
     children |-> <<>>]

IndexHtml == File(<<"i", ".", "h", "t", "m", "l">>, "i.html", "raw/good")
UpperHtml == File(<<"B", ".", "H", "T", "M", "L">>, "sub/B.HTML", "raw/bad")
MixedHtml == File(<<"m", ".", "h", "t", "m", "l">>, "m.html", "raw/mixed")
GoneHtml  == File(<<"c", ".", "h", "t", "m", "l">>, "c.html", "raw/gone")
DeepHtml  == File(<<"x", ".", "h", "t", "m", "l">>, "d1/d2/x.html", "raw/bad")
StyleCss  == File(<<"s", ".", "c", "s", "s">>, "s.css", "raw/css")
AppJs     == File(<<"a", ".", "J", "s">>, "sub/a.Js", "raw/js")
Readme    == File(<<"R", "E", "A", "D", "M", "E">>, "README", "raw/readme")
HtmlBak   == File(<<"o", ".", "h", "t", "m", "l", ".", "b", "a", "k">>, "o.html.bak", "raw/bak")
Link      == Other("symlink", <<"l", ".", "h", "t", "m", "l">>, "l.html")

\* the root listings of the repositories a run may be pointed at
Repos ==
    { <<>>,
      << IndexHtml >>,
      << StyleCss, Readme, Link >>,
      << MixedHtml, IndexHtml >>,
      << GoneHtml, StyleCss, Dir(<<"s", "u", "b">>, "sub", << UpperHtml, AppJs >>),
         Link, IndexHtml >>,
      << Dir(<<"d", "1">>, "d1", << HtmlBak, Dir(<<"d", "2">>, "d1/d2", << DeepHtml >>) >>),
         IndexHtml >> }

\* the items a generated root listing is built from: files whose names do
\* and do not end in a relevant extension, items of other types, directories
MaxEntries == 2

MixedCaseHtml == File(<<"P", ".", "H", "t", "M", "l">>, "P.HtMl", "raw/gone")
UpperCss      == File(<<"T", ".", "C", "S", "S">>, "T.CSS", "raw/css")
Htm           == File(<<"h", ".", "h", "t", "m">>, "h.htm", "raw/htm")
NoDot         == File(<<"h", "t", "m", "l">>, "html", "raw/nodot")
Nested ==
    Dir(<<"d">>, "d",
        << File(<<"1", ".", "h", "t", "m", "l">>, "d/1.html", "raw/gone"),
           Readme,
           Dir(<<"e">>, "d/e", << File(<<"2", ".", "j", "s">>, "d/e/2.js", "raw/js") >>),
           File(<<"3", ".", "c", "s", "s">>, "d/3.css", "raw/css") >>)
DirNamedHtml ==
    Dir(<<"x", ".", "h", "t", "m", "l">>, "x.html",
        << File(<<"4", ".", "H", "T", "M", "L">>, "x.html/4.HTML", "raw/gone") >>)

EntryPool ==
    {GoneHtml, MixedCaseHtml, UpperCss, AppJs, Htm, NoDot, Link, Nested, DirNamedHtml}

Trees == UNION {[1..n -> EntryPool] : n \in 0..MaxEntries}

----------------------------------------------------------------------------
(* GitService *)

\* as isRelevantFile, comparing the name as it is written
isRelevantFileCaseSensitive(filename) ==
    \E ext \in { <<".", "h", "t", "m", "l">>, <<".", "c", "s", "s">>, <<".", "j", "s">> } :
        endsWith(filename, ext)


isRelevantFile(filename) ==
    \E ext \in { <<".", "h", "t", "m", "l">>, <<".", "c", "s", "s">>, <<".", "j", "s">> } :
        endsWith(toLowerCase(filename), ext)

\* "throw" stands for the `default:` branch
getFileType(filename) ==
    LET extension == toLowerCase(splitPop(filename)) IN
    CASE extension = <<"h", "t", "m", "l">> -> "HTML"
      [] extension = <<"c", "s", "s">> -> "CSS"
      [] extension = <<"j", "s">> -> "JavaScript"
      [] OTHER -> "throw"

RepoFile(item) ==
    [name |-> item.path, path |-> item.path, type |-> getFileType(item.name),
     url |-> item.download_url]

ReplaceTop(st, frame) == [st EXCEPT ![Len(st)] = frame]

\* fetchDirectory from one await to the next: the for-of loops of the frames
\* on the stack run until a 'dir' item needs its listing (next = "fetch") or
\* the outermost call returns (next = "return")
RECURSIVE fetchDirectoryLoop(_)
fetchDirectoryLoop(st) ==
    LET top == st[Len(st)] IN
    IF top.rest = <<>>
    THEN IF Len(st) = 1
         THEN [next |-> "return", stack |-> <<>>, files |-> top.files, dir |-> <<>>]
         ELSE LET parent == st[Len(st) - 1]
                  popped == SubSeq(st, 1, Len(st) - 1)
              IN  fetchDirectoryLoop(
                      ReplaceTop(popped, [parent EXCEPT !.files = @ \o top.files]))
    ELSE LET item == Head(top.rest)
             rest == [top EXCEPT !.rest = Tail(@)]
         IN  IF item.type = "file" /\ isRelevantFile(item.name)
             THEN fetchDirectoryLoop(
                      ReplaceTop(st, [rest EXCEPT !.files = Append(@, RepoFile(item))]))
             ELSE IF item.type = "dir"
             THEN [next |-> "fetch", stack |-> ReplaceTop(st, rest),
                   files |-> <<>>, dir |-> item.children]
             ELSE fetchDirectoryLoop(ReplaceTop(st, rest))

\* the outcomes of fetch(apiUrl)
ListingOutcomes == {"ok", "404", "403", "ENOTFOUND"}

\* as listingFails, without the `!response.ok` test of lines 25-27
listingFailsOnRejectOnly(outcome) == outcome = "ENOTFOUND"

\* lines 24-27: does the try block of fetchDirectory throw for this outcome?
\* (fetch rejects, or the response is not ok)
listingFails(outcome) == outcome # "ok"

\* what the try block of fetchDirectory raises on a failed listing
listingError(outcome) ==
    IF outcome = "ENOTFOUND" THEN FetchFailed
    ELSE PlainError(<<"GitHub API responded with status: ", outcome>>)

\* the catch block of fetchDirectory
fetchDirectoryCatch(e) ==
    HttpException(<<"Failed to fetch repo contents: ">> \o e.message, 400)

\* an error raised `depth` calls deep passes through `depth` catch blocks
RECURSIVE fetchDirectoryThrow(_, _)
fetchDirectoryThrow(e, depth) ==
    IF depth = 0 THEN e
    ELSE fetchDirectoryThrow(fetchDirectoryCatch(e), depth - 1)

----------------------------------------------------------------------------
(* PlaywrightService: the pure parts *)

CheckResult(status, message, details) ==
    [status |-> status, message |-> message, details |-> details]

\* { label: ..., ...result }
Labelled(label, r) ==
    [label |-> label, status |-> r.status, message |-> r.message, details |-> r.details]

NoCheck == Labelled("", CheckResult("none", <<>>, <<>>))

Entities ==
    { [enc |-> <<"&", "l", "t", ";">>, dec |-> "<"],
      [enc |-> <<"&", "g", "t", ";">>, dec |-> ">"],
      [enc |-> <<"&", "a", "m", "p", ";">>, dec |-> "&"],
      [enc |-> <<"&", "q", "u", "o", "t", ";">>, dec |-> "\""],
      [enc |-> <<"&", "#", "3", "9", ";">>, dec |-> "'"] }

\* replace(/&lt;|&gt;|&amp;|&quot;|&#39;/g, ...): one scan from the left,
\* resuming after each match
RECURSIVE decodeFrom(_, _)
decodeFrom(s, i) ==
    IF i > Len(s) THEN <<>>
    ELSE IF \E e \in Entities : startsWithAt(s, i, e.enc)
    THEN LET e == CHOOSE x \in Entities : startsWithAt(s, i, x.enc)
         IN  <<e.dec>> \o decodeFrom(s, i + Len(e.enc))
    ELSE <<s[i]>> \o decodeFrom(s, i + 1)

\* as decodeHtmlEntities, the text of the replacements scanned again
decodeHtmlEntitiesAgain(encodedString) == decodeFrom(decodeFrom(encodedString, 1), 1)

\* PlaywrightService.decodeHtmlEntities (lines 112-124)
decodeHtmlEntities(encodedString) == decodeFrom(encodedString, 1)

\* as h1Elements, the selector matching the headings of the next level too
h1Elements2Levels(doc) == doc.h1 + doc.h2

\* page.$$eval('h1', (elements) => elements.length) (line 128)
h1Elements(doc) == doc.h1

\* the try block of checkSingleH1 after the page call (lines 131-140)
singleH1Result(h1Count) ==
    IF h1Count = 1 THEN CheckResult("pass", <<>>, <<>>)
    ELSE IF h1Count = 0 THEN CheckResult("fail", <<"No h1 found">>, <<>>)
    ELSE CheckResult("fail", <<"More than one h1 found (", ToString(h1Count), ")">>, <<>>)

\* checkSingleH1: `e` is what page.$$eval rejected with, NoError if it did not
checkSingleH1(h1Count, e) ==
    IF e = NoError THEN singleH1Result(h1Count)
    ELSE CheckResult("fail", <<"Error checking h1: ">> \o e.message, <<>>)

IsSpace(c) == c \in {" ", "\t", "\n"}

trimIsEmpty(s) == \A i \in 1..Len(s) : IsSpace(s[i])

\* as imageIssue, searching the alt text as it is written
imageIssueCaseSensitive(img, index) ==
    IF ~img.hasAlt
    THEN << <<"Image #", ToString(index), " is missing alt attribute">> >>
    ELSE IF trimIsEmpty(img.alt)
    THEN << <<"Image #", ToString(index), " has an empty alt attribute">> >>
    ELSE IF \/ includes(img.alt, <<"i", "m", "a", "g", "e">>)
            \/ includes(img.alt, <<"p", "i", "c", "t", "u", "r", "e">>)
    THEN << <<"Image #", ToString(index),
              " has alt text containing \"image\" or \"picture\": ", img.alt>> >>
    ELSE <<>>

\* the body of the forEach of checkImageAlts (lines 160-176)
imageIssue(img, index) ==
    IF ~img.hasAlt
    THEN << <<"Image #", ToString(index), " is missing alt attribute">> >>
    ELSE IF trimIsEmpty(img.alt)
    THEN << <<"Image #", ToString(index), " has an empty alt attribute">> >>
    ELSE IF \/ includes(toLowerCase(img.alt), <<"i", "m", "a", "g", "e">>)
            \/ includes(toLowerCase(img.alt), <<"p", "i", "c", "t", "u", "r", "e">>)
    THEN << <<"Image #", ToString(index),
              " has alt text containing \"image\" or \"picture\": ", img.alt>> >>
    ELSE <<>>

\* the forEach of checkImageAlts from position i on
RECURSIVE imageIssues(_, _)
imageIssues(imageAlts, i) ==
    IF i > Len(imageAlts) THEN <<>>
    ELSE imageIssue(imageAlts[i], i) \o imageIssues(imageAlts, i + 1)

checkImageAlts(imageAlts, e) ==
    IF e # NoError
    THEN CheckResult("fail", <<"Error checking image alts: ">> \o e.message, <<>>)
    ELSE LET issues == imageIssues(imageAlts, 1) IN
         IF issues # <<>>
         THEN CheckResult("fail", <<"Some images have issues with alt attributes">>, issues)
         ELSE CheckResult("pass",
                  <<"All ", ToString(Len(imageAlts)),
                    " images have appropriate alt attributes">>, <<>>)

minWidth == 320
maxWidth == 1920
widthStep == 10

\* the widths the for loop of checkHorizontalScrollbar visits if it never breaks
sweepWidths ==
    {minWidth + widthStep * k : k \in 0..((maxWidth - minWidth) \div widthStep)}

height == 1080

\* as sweepVisited, the loop running to the end whatever the page reports
sweepVisitedNoBreak(overflow) ==
    [k \in 1..Cardinality(sweepWidths) |->
        [width |-> minWidth + widthStep * (k - 1), height |-> height]]

\* the for loop of checkHorizontalScrollbar: the viewports it sets, in order.
\* An iteration is reached iff no earlier one met a scrollbar and broke out.
sweepVisited(overflow) ==
    LET reached == {w \in sweepWidths :
                       \A v \in sweepWidths : v < w => v \notin overflow}
    IN  [k \in 1..Cardinality(reached) |->
            [width |-> minWidth + widthStep * (k - 1), height |-> height]]

\* detectedWidth after the loop: the width it broke at, 0 if it ran to the end
sweep(overflow) ==
    LET visited == sweepVisited(overflow)
        last == visited[Len(visited)].width
    IN  IF last \in overflow THEN last ELSE 0

checkHorizontalScrollbar(overflow, e) ==
    IF e # NoError
    THEN CheckResult("fail", <<"Error checking for horizontal scrollbar: ">> \o e.message, <<>>)
    ELSE LET detectedWidth == sweep(overflow) IN
         IF detectedWidth # 0
         THEN CheckResult("fail",
                  <<"Horizontal scrollbar detected at ", ToString(detectedWidth), "px width">>,
                  <<>>)
         ELSE CheckResult("pass",
                  <<"No horizontal scrollbar detected for widths 320px and above">>, <<>>)

\* the placeholder runChecks puts into w3cValidation
w3cPlaceholder ==
    Labelled("W3C_VALIDATION",
        CheckResult("pass", <<"W3C validation not performed in this service">>, <<>>))

\* Object.values(checks).every(check => check.status === 'pass')
allChecksPassed(c) ==
    /\ c.singleH1.status = "pass"
    /\ c.imageAlts.status = "pass"
    /\ c.w3cValidation.status = "pass"
    /\ c.horizontalScrollbar.status = "pass"

\* the value runChecks returns
runChecksResult(fileName, c) ==
    [fileName |-> fileName, passed |-> allChecksPassed(c), checks |-> c]

\* the catch block of checkHtmlFile: what it throws for a caught `e`
checkHtmlFileCatch(e) ==
    IF messageIncludes(e.message, "Target closed")
    THEN BrowserError(<<"Browser instance is not available">>)
    ELSE e

----------------------------------------------------------------------------
(* HtmlValidatorService and CodeCheckService: the pure parts *)

ValidatorOutcomes == {"ok", "unreachable", "503"}

\* HtmlValidatorService.validateHtml: NoError and the parsed body, or the
\* error its catch block throws
validatorError(outcome) ==
    IF outcome = "ok" THEN NoError ELSE PlainError(<<"Failed to validate HTML">>)

RECURSIVE errorLines(_)
errorLines(messages) ==
    IF messages = <<>> THEN <<>>
    ELSE LET msg == Head(messages) IN
         (IF msg.type = "error"
          THEN << <<"Line ", ToString(msg.lastLine), ": ", msg.message>> >>
          ELSE <<>>) \o errorLines(Tail(messages))

\* as validateHtml, failing on a message of any type
validateHtmlAnyMessage(messages, e) ==
    IF e # NoError
    THEN CheckResult("fail", <<"Error in W3C validation: ">> \o e.message, <<>>)
    ELSE IF messages = <<>>
         THEN CheckResult("pass", <<"HTML is valid according to W3C">>, <<>>)
         ELSE CheckResult("fail", <<"W3C validation errors found">>, errorLines(messages))

\* CodeCheckService.validateHtml
validateHtml(messages, e) ==
    IF e # NoError
    THEN CheckResult("fail", <<"Error in W3C validation: ">> \o e.message, <<>>)
    ELSE LET details == errorLines(messages) IN
         IF details = <<>>
         THEN CheckResult("pass", <<"HTML is valid according to W3C">>, <<>>)
         ELSE CheckResult("fail", <<"W3C validation errors found">>, details)

\* as mergedResult, keeping the `passed` runChecks computed
mergedResultStalePassed(checkResult, w3cValidation) ==
    LET updated == [checkResult.checks EXCEPT
                       !.w3cValidation = Labelled("W3C_VALIDATION", w3cValidation)]
    IN  [fileName |-> checkResult.fileName,
         passed |-> checkResult.passed,
         checks |-> updated]

\* lines 72-86 of checkRepo: the record pushed after a successful validation call
mergedResult(checkResult, w3cValidation) ==
    LET updated == [checkResult.checks EXCEPT
                       !.w3cValidation = Labelled("W3C_VALIDATION", w3cValidation)]
    IN  [fileName |-> checkResult.fileName,
         passed |-> allChecksPassed(updated),
         checks |-> updated]

\* as errorResult, leaving w3cValidation out of the failed categories
errorResultThreeFailed(filePath, e) ==
    LET failed(label) ==
            Labelled(label, CheckResult("fail", <<"Error: ">> \o e.message, <<>>))
    IN  [fileName |-> filePath,
         passed |-> FALSE,
         checks |-> [singleH1 |-> failed("SINGLE_H1"),
                     imageAlts |-> failed("IMAGE_ALTS"),
                     w3cValidation |-> w3cPlaceholder,
                     horizontalScrollbar |-> failed("HORIZONTAL_SCROLLBAR")]]

\* lines 92-117 of checkRepo: the record pushed for a caught error
errorResult(filePath, e) ==
    LET failed(label) ==
            Labelled(label, CheckResult("fail", <<"Error: ">> \o e.message, <<>>))
    IN  [fileName |-> filePath,
         passed |-> FALSE,
         checks |-> [singleH1 |-> failed("SINGLE_H1"),
                     imageAlts |-> failed("IMAGE_ALTS"),
                     w3cValidation |-> failed("W3C_VALIDATION"),
                     horizontalScrollbar |-> failed("HORIZONTAL_SCROLLBAR")]]

\* as rethrownByLoop, without the instanceof test: nothing is rethrown
rethrownNever(e) == FALSE

\* as rethrownByLoop, without the instanceof test: everything is rethrown
rethrownAlways(e) == TRUE

\* line 88: does the catch inside the loop rethrow?
rethrownByLoop(e) == e.kind = "BrowserError"

\* as checkRepoCatch, the last branch throwing the caught error on
checkRepoCatchPassesOn(e) ==
    IF e.kind = "BrowserError" THEN e
    ELSE IF e.responseStatus = 404 THEN RepoNotFoundError
    ELSE IF e.code = "ENOTFOUND" THEN NetworkError
    ELSE e

\* lines 123-134: the error that leaves checkRepo for a caught `e`
checkRepoCatch(e) ==
    IF e.kind = "BrowserError" THEN e
    ELSE IF e.responseStatus = 404 THEN RepoNotFoundError
    ELSE IF e.code = "ENOTFOUND" THEN NetworkError
    ELSE UnknownError(<<"Failed to check repository: ">> \o e.message)

Count(results, P(_)) == Cardinality({i \in 1..Len(results) : P(results[i])})

\* as summarizeResults, counting as failed the files that did not pass
summarizeResultsFailedFiles(results) ==
    LET tally(label, check(_)) ==
            [label |-> label,
             passed |-> Count(results, LAMBDA r : check(r).status = "pass"),
             failed |-> Count(results, LAMBDA r : ~r.passed)]
    IN  [summary |->
            [totalFiles |-> Len(results),
             h1Checks |-> tally("SINGLE_H1", LAMBDA r : r.checks.singleH1),
             imageAltChecks |-> tally("IMAGE_ALTS", LAMBDA r : r.checks.imageAlts),
             w3cValidation |-> tally("W3C_VALIDATION", LAMBDA r : r.checks.w3cValidation),
             horizontalScrollbarChecks |->
                 tally("HORIZONTAL_SCROLLBAR", LAMBDA r : r.checks.horizontalScrollbar)],
         details |-> results]

summarizeResults(results) ==
    LET tally(label, check(_)) ==
            [label |-> label,
             passed |-> Count(results, LAMBDA r : check(r).status = "pass"),
             failed |-> Count(results, LAMBDA r : check(r).status = "fail")]
    IN  [summary |->
            [totalFiles |-> Len(results),
             h1Checks |-> tally("SINGLE_H1", LAMBDA r : r.checks.singleH1),
             imageAltChecks |-> tally("IMAGE_ALTS", LAMBDA r : r.checks.imageAlts),
             w3cValidation |-> tally("W3C_VALIDATION", LAMBDA r : r.checks.w3cValidation),
             horizontalScrollbarChecks |->
                 tally("HORIZONTAL_SCROLLBAR", LAMBDA r : r.checks.horizontalScrollbar)],
         details |-> results]

\* the value of `result` while checkRepo has not returned
NoResult == [summarizeResults(<<>>) EXCEPT !.summary.totalFiles = -1]

\* CodeCheckController.checkRepo: the HTTP status answered for a thrown error
\* git.service.ts 108-132: the message of the HttpException the controller
\* answers with for the error `e` that left checkRepo
controllerMessage(e) ==
    IF e.kind \in {"RepoNotFoundError", "NetworkError", "BrowserError", "UnknownError"}
    THEN e.message
    ELSE <<"An unexpected error occurred">>

controllerStatus(e) ==
    CASE e.kind = "RepoNotFoundError" -> 404
      [] e.kind = "NetworkError" -> 502
      [] e.kind = "BrowserError" -> 500
      [] e.kind = "UnknownError" -> 500
      [] OTHER -> 500

----------------------------------------------------------------------------
(* The runs *)

NoChecks ==
    [singleH1 |-> NoCheck, imageAlts |-> NoCheck, w3cValidation |-> NoCheck,
     horizontalScrollbar |-> NoCheck]

NoLog ==
    [listing |-> "none",   \* the outcome of the listing request that failed
     files |-> <<>>,       \* the list fetchRepo returned
     injected |-> <<>>,    \* the page.setContent calls: loop position and markup set
     raised |-> {},        \* the rejected page calls inside the three checks
     viewports |-> <<>>,   \* the viewports the last completed sweep set
     opened |-> 0,         \* pages opened so far
     validated |-> <<>>,   \* the validator calls: loop position, markup sent, and
                           \* the checkResult checkHtmlFile had returned
     dead |-> {},          \* loop positions at which a page call met a dead browser
     soft |-> {},          \* loop positions at which checkHtmlFile threw a non-fatal error
     vfail |-> {},         \* loop positions at which the validator call failed
     fatalAt |-> 0,        \* loop position at which checkHtmlFile threw a BrowserError
     thrown |-> NoError]   \* the error checkHtmlFile threw last

\* the runs in `active` have been called, each with one of the repositories
\* `repos` gives it
InitWith(active, repos, webs) ==
    /\ browser = "up"
    /\ web \in webs
    /\ repo \in [Runs -> UNION {repos[r] : r \in Runs}]
    /\ \A r \in Runs : repo[r] \in repos[r]
    /\ pc = [r \in Runs |-> IF r \in active THEN "Fetching" ELSE "Idle"]
    /\ fstack = [r \in Runs |-> <<>>]
    /\ fdir = repo
    /\ htmlFiles = [r \in Runs |-> <<>>]
    /\ idx = [r \in Runs |-> 0]
    /\ page = [r \in Runs |-> "null"]
    /\ response = [r \in Runs |-> DocGone]
    /\ content = [r \in Runs |-> <<>>]
    /\ checks = [r \in Runs |-> NoChecks]
    /\ exc = [r \in Runs |-> NoError]
    /\ checkResults = [r \in Runs |-> <<>>]
    /\ result = [r \in Runs |-> NoResult]
    /\ error = [r \in Runs |-> NoError]
    /\ httpStatus = [r \in Runs |-> 0]
    /\ openPages = [r \in Runs |-> 0]
    /\ faults = [r \in Runs |-> 0]
    /\ log = [r \in Runs |-> NoLog]

InitRun(active, repos) == InitWith(active, repos, {Published})

\* a repository of one HTML file, and the documents its download url may serve
AnyHtml == File(<<"a", ".", "h", "t", "m", "l">>, "a.html", "raw/any")

Serving(doc) == [Published EXCEPT !["raw/any"] = doc]

DocInit(docs) ==
    InitWith({"r1"}, [r \in Runs |-> IF r = "r1" THEN {<< AnyHtml >>} ELSE {<<>>}],
             {Serving(doc) : doc \in docs})

\* the message lists the validator may answer with
MaxMessages == 2

MessagePool ==
    { [type |-> "error", lastLine |-> 3, message |-> "Stray end tag"],
      [type |-> "error", lastLine |-> 7, message |-> "Duplicate ID"],
      [type |-> "info", lastLine |-> 1, message |-> "Trailing slash"],
      [type |-> "non-document-error", lastLine |-> 0, message |-> "io"] }

MessageLists == UNION {[1..n -> MessagePool] : n \in 0..MaxMessages}

ValidatorInit == DocInit({[DocGood EXCEPT !.messages = m] : m \in MessageLists})

\* the img elements a document may hold
MaxImages == 2

ImagePool ==
    { [hasAlt |-> FALSE, alt |-> <<>>],
      [hasAlt |-> TRUE, alt |-> <<>>],
      [hasAlt |-> TRUE, alt |-> <<" ", "\t">>],
      [hasAlt |-> TRUE, alt |-> <<"c", "a", "t">>],
      [hasAlt |-> TRUE, alt |-> <<"I", "m", "a", "g", "e">>],
      [hasAlt |-> TRUE, alt |-> <<"a", " ", "P", "I", "C", "T", "U", "R", "E", "!">>],
      [hasAlt |-> TRUE, alt |-> <<"i", "m", "a", "g">>] }

ImageLists == UNION {[1..n -> ImagePool] : n \in 0..MaxImages}

ImageInit == DocInit({[DocGood EXCEPT !.imgs = i] : i \in ImageLists})

\* the viewport widths at which a document may be wider than the viewport
MaxOverflowing == 3

WidthPool == {310, 320, 325, 330, 1000, 1920, 1930}

OverflowSets == {ws \in SUBSET WidthPool : Cardinality(ws) <= MaxOverflowing}

SweepInit == DocInit({[DocGood EXCEPT !.overflow = ws] : ws \in OverflowSets})

\* the headings a document may hold
MaxH1 == 3

HeadingInit ==
    DocInit({[doc EXCEPT !.h1 = n, !.h2 = m] :
                 doc \in {DocGood, DocBad}, n \in 0..MaxH1, m \in 0..1})

\* the texts a download url may serve: up to MaxPieces pieces, each an
\* entity, a part of one, or something that only looks like one
MaxPieces == 2

PiecePool ==
    { <<"&", "l", "t", ";">>, <<"&", "g", "t", ";">>, <<"&", "a", "m", "p", ";">>,
      <<"&", "q", "u", "o", "t", ";">>, <<"&", "#", "3", "9", ";">>,
      <<"l", "t", ";">>, <<"&">>, <<"x">>, <<"&", "L", "T", ";">> }

RECURSIVE Concat(_)
Concat(pieces) == IF pieces = <<>> THEN <<>> ELSE Head(pieces) \o Concat(Tail(pieces))

Texts == {Concat(ps) : ps \in UNION {[1..n -> PiecePool] : n \in 0..MaxPieces}}

DecodeInit == DocInit({[DocGood EXCEPT !.text = t] : t \in Texts})

\* one request for a generated repository or one of Repos
TreeInit == InitRun({"r1"}, [r \in Runs |-> IF r = "r1" THEN Trees \cup Repos ELSE {<<>>}])

\* one request at a time
Init == InitRun({"r1"}, [r \in Runs |-> IF r = "r1" THEN Repos ELSE {<<>>}])

\* two requests in flight on the same service instances
ConcRepos ==
    [r \in Runs |-> IF r = "r1" THEN { << UpperHtml, StyleCss, IndexHtml >> }
                    ELSE { << IndexHtml >>, << GoneHtml >> }]

ConcInit == InitRun(Runs, ConcRepos)

fetchVars == <<repo, web, fstack, fdir, htmlFiles>>
callVars == <<page, response, content, checks, exc>>

file(r) == htmlFiles[r][idx[r]]

InCall(r) ==
    pc[r] \in {"Goto", "Text", "SetContent", "CheckSingleH1", "CheckImageAlts",
               "CheckHorizontalScrollbar", "ClosePage"}

Running(r) == pc[r] \notin {"Idle", "Done", "Aborted"}

\* the errors a page call can reject with in the current state: NoError is
\* the call succeeding
PageCallErrors(r) ==
    IF browser = "down" THEN {TargetClosed}
    ELSE {NoError} \cup (IF faults[r] < MaxFaults THEN {Timeout} ELSE {})

\* the page call `call` of the current file settled with e
Noted(r, e, call) ==
    /\ faults' = [faults EXCEPT ![r] = IF e = Timeout THEN @ + 1 ELSE @]
    /\ log' = [log EXCEPT
                  ![r].dead = IF e = TargetClosed THEN @ \cup {idx[r]} ELSE @,
                  ![r].injected =
                      IF call = "setContent" /\ e = NoError
                      THEN Append(@, [at |-> idx[r], html |-> content[r]]) ELSE @,
                  ![r].raised =
                      IF call \in {"singleH1", "imageAlts", "horizontalScrollbar"}
                         /\ e # NoError
                      THEN @ \cup {[at |-> idx[r], check |-> call, error |-> e]} ELSE @,
                  ![r].viewports =
                      IF call = "horizontalScrollbar" /\ e = NoError
                      THEN sweepVisited(response[r].overflow) ELSE @]

\* an error leaves the try block of checkRepo (lines 123-134), and the
\* controller answers
Raised(r, e) ==
    /\ pc' = [pc EXCEPT ![r] = "Aborted"]
    /\ error' = [error EXCEPT ![r] = checkRepoCatch(e)]
    /\ httpStatus' = [httpStatus EXCEPT ![r] = controllerStatus(checkRepoCatch(e))]
    /\ UNCHANGED <<checkResults, idx, result>>

\* as Pushed, the records kept in one list of the service instance
PushedToSharedList(r, rec) ==
    /\ checkResults' = [q \in Runs |-> Append(checkResults[q], rec)]
    /\ idx' = [idx EXCEPT ![r] = @ + 1]
    /\ pc' = [pc EXCEPT ![r] =
                 IF idx[r] < Len(htmlFiles[r]) THEN "NewPage" ELSE "Aggregating"]
    /\ UNCHANGED <<error, httpStatus, result>>

\* as Pushed, the loop left after the first record
PushedEndsLoop(r, rec) ==
    /\ checkResults' = [checkResults EXCEPT ![r] = Append(@, rec)]
    /\ idx' = [idx EXCEPT ![r] = @ + 1]
    /\ pc' = [pc EXCEPT ![r] = "Aggregating"]
    /\ UNCHANGED <<error, httpStatus, result>>

\* a record is pushed and the for-of loop moves on (lines 66, 83, 92)
Pushed(r, rec) ==
    /\ checkResults' = [checkResults EXCEPT ![r] = Append(@, rec)]
    /\ idx' = [idx EXCEPT ![r] = @ + 1]
    /\ pc' = [pc EXCEPT ![r] =
                 IF idx[r] < Len(htmlFiles[r]) THEN "NewPage" ELSE "Aggregating"]
    /\ UNCHANGED <<error, httpStatus, result>>

\* as Thrown, the catch of the loop moving on without pushing a record
ThrownSkipsFile(r, e) ==
    IF rethrownByLoop(e) THEN Raised(r, e)
    ELSE /\ idx' = [idx EXCEPT ![r] = @ + 1]
         /\ pc' = [pc EXCEPT ![r] =
                      IF idx[r] < Len(htmlFiles[r]) THEN "NewPage" ELSE "Aggregating"]
         /\ UNCHANGED <<checkResults, error, httpStatus, result>>

\* checkHtmlFile throws e into the catch of the loop (lines 87-118)
Thrown(r, e) ==
    IF rethrownByLoop(e) THEN Raised(r, e) ELSE Pushed(r, errorResult(file(r).path, e))

LeftCall(r) ==
    /\ response' = [response EXCEPT ![r] = DocGone]
    /\ content' = [content EXCEPT ![r] = <<>>]
    /\ checks' = [checks EXCEPT ![r] = NoChecks]
    /\ exc' = [exc EXCEPT ![r] = NoError]

\* git.service.ts 16-53 with code-check.service.ts 59-66: the listing of one
\* directory arrives (or fails) and the traversal runs on to the next request
FetchDirectory(r) ==
    /\ pc[r] = "Fetching"
    /\ \E outcome \in ListingOutcomes :
        IF ~listingFails(outcome)
        THEN LET step == fetchDirectoryLoop(
                             Append(fstack[r], [rest |-> fdir[r], files |-> <<>>]))
                 html == SelectSeq(step.files, LAMBDA f : f.type = "HTML")
             IN  /\ fstack' = [fstack EXCEPT ![r] = step.stack]
                 /\ fdir' = [fdir EXCEPT ![r] = step.dir]
                 /\ IF step.next = "fetch"
                    THEN UNCHANGED <<pc, htmlFiles, idx>>
                    ELSE /\ htmlFiles' = [htmlFiles EXCEPT ![r] = html]
                         /\ idx' = [idx EXCEPT ![r] = 1]
                         /\ pc' = [pc EXCEPT ![r] =
                                      IF html # <<>> THEN "NewPage" ELSE "Aggregating"]
                 /\ log' = [log EXCEPT ![r].listing = IF outcome # "ok" THEN outcome ELSE @,
                                       ![r].files = IF step.next = "return" THEN step.files
                                                    ELSE @]
                 /\ UNCHANGED <<checkResults, result, error, httpStatus>>
        ELSE /\ Raised(r, fetchDirectoryThrow(listingError(outcome), Len(fstack[r]) + 1))
             /\ log' = [log EXCEPT ![r].listing = outcome]
             /\ UNCHANGED <<fstack, fdir, htmlFiles>>
    /\ UNCHANGED <<browser, repo, web, callVars, openPages, faults>>

\* playwright.service.ts 44-46: browser.newPage()
NewPage(r) ==
    /\ pc[r] = "NewPage"
    /\ IF browser = "down"
       THEN /\ Thrown(r, checkHtmlFileCatch(TargetClosed))
            /\ log' = [log EXCEPT ![r].dead = @ \cup {idx[r]},
                                  ![r].thrown = checkHtmlFileCatch(TargetClosed),
                                  ![r].fatalAt =
                                      IF checkHtmlFileCatch(TargetClosed).kind = "BrowserError"
                                      THEN idx[r] ELSE @,
                                  ![r].soft =
                                      IF checkHtmlFileCatch(TargetClosed).kind = "BrowserError"
                                      THEN @ ELSE @ \cup {idx[r]}]
            /\ UNCHANGED <<page, openPages>>
       ELSE /\ page' = [page EXCEPT ![r] = "open"]
            /\ openPages' = [openPages EXCEPT ![r] = @ + 1]
            /\ pc' = [pc EXCEPT ![r] = "Goto"]
            /\ log' = [log EXCEPT ![r].opened = @ + 1]
            /\ UNCHANGED <<checkResults, idx, result, error, httpStatus>>
    /\ UNCHANGED <<browser, fetchVars, response, content, checks, exc, faults>>

\* the try block of checkHtmlFile is left with error e: catch (70-75), then
\* the finally block awaits page.close()
Caught(r, e) ==
    /\ exc' = [exc EXCEPT ![r] = checkHtmlFileCatch(e)]
    /\ pc' = [pc EXCEPT ![r] = "ClosePage"]

\* playwright.service.ts 49-54: page.goto and the response.ok() test
Goto(r) ==
    /\ pc[r] = "Goto"
    /\ \E e \in PageCallErrors(r) :
        /\ Noted(r, e, "goto")
        /\ IF e # NoError
           THEN Caught(r, e) /\ UNCHANGED response
           ELSE LET doc == web[file(r).url] IN
                /\ response' = [response EXCEPT ![r] = doc]
                /\ IF doc.ok
                   THEN pc' = [pc EXCEPT ![r] = "Text"] /\ UNCHANGED exc
                   ELSE Caught(r, PlainError(<<"Failed to load page: ", doc.statusText>>))
    /\ UNCHANGED <<browser, fetchVars, idx, page, content, checks, checkResults,
                   result, error, httpStatus, openPages>>

\* playwright.service.ts 56-57: response.text() and decodeHtmlEntities
Text(r) ==
    /\ pc[r] = "Text"
    /\ \E e \in PageCallErrors(r) :
        /\ Noted(r, e, "text")
        /\ IF e # NoError
           THEN Caught(r, e) /\ UNCHANGED content
           ELSE /\ content' = [content EXCEPT ![r] = decodeHtmlEntities(response[r].text)]
                /\ pc' = [pc EXCEPT ![r] = "SetContent"]
                /\ UNCHANGED exc
    /\ UNCHANGED <<browser, fetchVars, idx, page, response, checks, checkResults,
                   result, error, httpStatus, openPages>>

\* playwright.service.ts 58: page.setContent
SetContent(r) ==
    /\ pc[r] = "SetContent"
    /\ \E e \in PageCallErrors(r) :
        /\ Noted(r, e, "setContent")
        /\ IF e # NoError
           THEN Caught(r, e)
           ELSE pc' = [pc EXCEPT ![r] = "CheckSingleH1"] /\ UNCHANGED exc
    /\ UNCHANGED <<browser, fetchVars, idx, page, response, content, checks,
                   checkResults, result, error, httpStatus, openPages>>

\* as CheckSingleH1, a rejected page call leaving checkSingleH1 as a throw
CheckSingleH1Uncaught(r) ==
    /\ pc[r] = "CheckSingleH1"
    /\ \E e \in PageCallErrors(r) :
        /\ Noted(r, e, "singleH1")
        /\ IF e # NoError
           THEN Caught(r, e) /\ UNCHANGED checks
           ELSE /\ checks' = [checks EXCEPT ![r].singleH1 =
                                  Labelled("SINGLE_H1",
                                      checkSingleH1(h1Elements(response[r]), e))]
                /\ pc' = [pc EXCEPT ![r] = "CheckImageAlts"]
                /\ UNCHANGED exc
    /\ UNCHANGED <<browser, fetchVars, idx, page, response, content,
                   checkResults, result, error, httpStatus, openPages>>

\* playwright.service.ts 86-89, 126-145
CheckSingleH1(r) ==
    /\ pc[r] = "CheckSingleH1"
    /\ \E e \in PageCallErrors(r) :
        /\ Noted(r, e, "singleH1")
        /\ checks' = [checks EXCEPT ![r].singleH1 =
                         Labelled("SINGLE_H1",
                             checkSingleH1(h1Elements(response[r]), e))]
    /\ pc' = [pc EXCEPT ![r] = "CheckImageAlts"]
    /\ UNCHANGED <<browser, fetchVars, idx, page, response, content, exc,
                   checkResults, result, error, httpStatus, openPages>>

\* playwright.service.ts 90-93, 147-197
CheckImageAlts(r) ==
    /\ pc[r] = "CheckImageAlts"
    /\ \E e \in PageCallErrors(r) :
        /\ Noted(r, e, "imageAlts")
        /\ checks' = [checks EXCEPT ![r].imageAlts =
                         Labelled("IMAGE_ALTS", checkImageAlts(response[r].imgs, e))]
    /\ pc' = [pc EXCEPT ![r] = "CheckHorizontalScrollbar"]
    /\ UNCHANGED <<browser, fetchVars, idx, page, response, content, exc,
                   checkResults, result, error, httpStatus, openPages>>

\* playwright.service.ts 94-110, 199-244: the sweep, then runChecks and the
\* try block of checkHtmlFile return
CheckHorizontalScrollbar(r) ==
    /\ pc[r] = "CheckHorizontalScrollbar"
    /\ \E e \in PageCallErrors(r) :
        /\ Noted(r, e, "horizontalScrollbar")
        /\ checks' = [checks EXCEPT
                         ![r].w3cValidation = w3cPlaceholder,
                         ![r].horizontalScrollbar =
                             Labelled("HORIZONTAL_SCROLLBAR",
                                 checkHorizontalScrollbar(response[r].overflow, e))]
    /\ pc' = [pc EXCEPT ![r] = "ClosePage"]
    /\ UNCHANGED <<browser, fetchVars, idx, page, response, content, exc,
                   checkResults, result, error, httpStatus, openPages>>

\* as closePage, the page never released
closePageLeaked(n) == n

\* page.close(): the pages of the run still open afterwards
closePage(n) == IF n > 0 THEN n - 1 ELSE 0

\* playwright.service.ts 76-78: the finally block; then checkHtmlFile returns
\* or throws.  page.close() on a page of a dead browser settles normally.
ClosePage(r) ==
    /\ pc[r] = "ClosePage"
    /\ page' = [page EXCEPT ![r] = IF exc[r] # NoError THEN "null" ELSE "closed"]
    /\ openPages' = [openPages EXCEPT ![r] = closePage(@)]
    /\ IF exc[r] # NoError
       THEN /\ Thrown(r, exc[r])
            /\ LeftCall(r)
            /\ log' = [log EXCEPT
                          ![r].thrown = exc[r],
                          ![r].fatalAt = IF exc[r].kind = "BrowserError" THEN idx[r] ELSE @,
                          ![r].soft = IF exc[r].kind = "BrowserError" THEN @
                                      ELSE @ \cup {idx[r]}]
       ELSE /\ pc' = [pc EXCEPT ![r] = "Validate"]
            /\ UNCHANGED <<response, content, checks, exc, checkResults, idx, result,
                           error, httpStatus, log>>
    /\ UNCHANGED <<browser, fetchVars, faults>>

\* as returnedContent, checkHtmlFile handing back the text of the response
returnedContentRaw(rawContent, decodedContent) == rawContent

\* playwright.service.ts 66-69: the content checkHtmlFile returns, which
\* checkRepo passes to validateHtml (code-check.service.ts 69-71)
returnedContent(rawContent, decodedContent) == decodedContent

\* code-check.service.ts 71-86 with 137-161 and html-validator.service.ts:
\* the validator call, the merge and the push
Validate(r) ==
    /\ pc[r] = "Validate"
    /\ \E outcome \in ValidatorOutcomes :
        LET e == validatorError(outcome)
            w3cValidation == validateHtml(response[r].messages, e)
            checkResult == runChecksResult(file(r).path, checks[r])
        IN  /\ outcome # "ok" => faults[r] < MaxFaults
            /\ Pushed(r, mergedResult(checkResult, w3cValidation))
            /\ faults' = [faults EXCEPT ![r] = IF outcome # "ok" THEN @ + 1 ELSE @]
            /\ log' = [log EXCEPT
                          ![r].validated = Append(@, [at |-> idx[r],
                                                     html |-> returnedContent(
                                                         response[r].text, content[r]),
                                                     checkResult |-> checkResult]),
                          ![r].vfail = IF outcome # "ok" THEN @ \cup {idx[r]} ELSE @]
    /\ LeftCall(r)
    /\ page' = [page EXCEPT ![r] = "null"]
    /\ UNCHANGED <<browser, fetchVars, openPages>>

\* code-check.service.ts 121-122, 168-209; the controller answers 200
Summarize(r) ==
    /\ pc[r] = "Aggregating"
    /\ result' = [result EXCEPT ![r] = summarizeResults(checkResults[r])]
    /\ pc' = [pc EXCEPT ![r] = "Done"]
    /\ httpStatus' = [httpStatus EXCEPT ![r] = 200]
    /\ UNCHANGED <<browser, fetchVars, idx, callVars, checkResults, error, openPages,
                   faults, log>>

\* the browser process crashes, or onModuleDestroy closes it (36-38), while
\* a run is in flight: every page of it is gone
BrowserDown ==
    /\ browser = "up"
    /\ \E r \in Runs : Running(r)
    /\ browser' = "down"
    /\ openPages' = [r \in Runs |-> 0]
    /\ UNCHANGED <<fetchVars, pc, idx, callVars, checkResults, result, error,
                   httpStatus, faults, log>>

\* the steps of a run once the file list is there
Check(r) ==
    \/ NewPage(r)
    \/ Goto(r)
    \/ Text(r)
    \/ SetContent(r)
    \/ CheckSingleH1(r)
    \/ CheckImageAlts(r)
    \/ CheckHorizontalScrollbar(r)
    \/ ClosePage(r)
    \/ Validate(r)
    \/ Summarize(r)

Step(r) == FetchDirectory(r) \/ Check(r)

Next == BrowserDown \/ \E r \in Runs : Step(r)

Spec == Init /\ [][Next]_vars

ConcSpec == ConcInit /\ [][Next]_vars

\* every await of the per-file pipeline settles; the browser need not fail
ValidatorSpec == ValidatorInit /\ [][Next]_vars

TreeSpec == TreeInit /\ [][Next]_vars

ImageSpec == ImageInit /\ [][Next]_vars

SweepSpec == SweepInit /\ [][Next]_vars

HeadingSpec == HeadingInit /\ [][Next]_vars

DecodeSpec == DecodeInit /\ [][Next]_vars

FairSpec == Init /\ [][Next]_vars /\ \A r \in Runs : WF_vars(Check(r))

----------------------------------------------------------------------------
(* Properties *)

Categories == {"singleH1", "imageAlts", "w3cValidation", "horizontalScrollbar"}

SummaryFields == {"h1Checks", "imageAltChecks", "w3cValidation", "horizontalScrollbarChecks"}

Recorded(r, i) == i <= Len(checkResults[r])

\* C1: in every RepoCheckResult checkRepo returns, each of the four
\* categories has passed + failed = totalFiles.
C1_CountsSumToTotal ==
    \A r \in Runs :
        pc[r] = "Done" =>
            \A f \in SummaryFields :
                result[r].summary[f].passed + result[r].summary[f].failed
                    = result[r].summary.totalFiles

\* a returned result over a passing file, a file whose validator call failed
\* and a file the runner failed softly on
C1_Witness ==
    \E r \in Runs :
        /\ pc[r] = "Done"
        /\ result[r].summary.totalFiles = 3
        /\ log[r].soft # {}
        /\ log[r].vfail # {}
        /\ result[r].summary.h1Checks.passed > 0
        /\ result[r].summary.w3cValidation.failed > result[r].summary.h1Checks.failed

\* C2: every record in the result list has passed = TRUE exactly when all
\* four of its checks have status 'pass'.
C2_PassedIffAllPass ==
    \A r \in Runs :
        \A i \in 1..Len(checkResults[r]) :
            checkResults[r][i].passed
                <=> (\A c \in Categories : checkResults[r][i].checks[c].status = "pass")

\* a merged record whose three runner checks pass and whose validation
\* failed, next to a record synthesized for an error
C2_Witness ==
    \E r \in Runs :
        \E i, j \in 1..Len(checkResults[r]) :
            /\ i \in log[r].soft
            /\ j \notin log[r].soft
            /\ checkResults[r][j].checks.w3cValidation.status = "fail"
            /\ \A c \in Categories \ {"w3cValidation"} :
                   checkResults[r][j].checks[c].status = "pass"
            /\ ~checkResults[r][j].passed

\* C3: when a page call of file i meets an unusable browser, checkRepo aborts
\* with BrowserError: file i is never recorded and no result is returned.
C3_DeadEngineIsFatal ==
    \A r \in Runs :
        /\ \A i \in log[r].dead : ~Recorded(r, i)
        /\ log[r].dead # {} /\ ~Running(r) =>
               pc[r] = "Aborted" /\ error[r].kind = "BrowserError"

\* C4: once checkHtmlFile has thrown a BrowserError at file i, checkRepo is
\* aborted with that same error, at position i, with no record for i or any
\* later file, no page opened and no validator call after i, and no result.
C4_BrowserErrorAborts ==
    \A r \in Runs :
        log[r].fatalAt # 0 =>
            /\ pc[r] = "Aborted"
            /\ error[r] = log[r].thrown
            /\ error[r].kind = "BrowserError"
            /\ httpStatus[r] = 500
            /\ idx[r] = log[r].fatalAt
            /\ Len(checkResults[r]) < log[r].fatalAt
            /\ log[r].opened <= log[r].fatalAt
            /\ \A k \in 1..Len(log[r].validated) : log[r].validated[k].at < log[r].fatalAt
            /\ result[r] = NoResult

\* a BrowserError at a file that is neither the first nor the last
C4_Witness ==
    \E r \in Runs :
        /\ log[r].fatalAt = 2
        /\ Len(htmlFiles[r]) = 3
        /\ Len(checkResults[r]) = 1

SameFailure(rec) ==
    /\ ~rec.passed
    /\ \A c \in Categories : rec.checks[c].status = "fail"
    /\ \A c, d \in Categories : rec.checks[c].message = rec.checks[d].message

\* C5 as stated: the record of a file that had a runner soft failure or a
\* validator failure has all four categories 'fail' with one message.
C5_AllFourFailOnAnySoftFailure ==
    \A r \in Runs :
        \A i \in log[r].soft \cup log[r].vfail :
            Recorded(r, i) => SameFailure(checkResults[r][i])

ReturnedFor(r, i) ==
    (CHOOSE v \in {log[r].validated[k] : k \in 1..Len(log[r].validated)} : v.at = i).checkResult

\* C5 amended: after a runner soft failure all four categories are 'fail'
\* with one message built from the error; after a validator failure the
\* record is not passed, w3cValidation is 'fail' with the validator error
\* message, and the other three categories are what the runner returned.
C5_SoftFailureRecords ==
    \A r \in Runs :
        /\ \A i \in log[r].soft :
               Recorded(r, i) =>
                   /\ SameFailure(checkResults[r][i])
                   /\ checkResults[r][i].checks.singleH1.message[1] = "Error: "
        /\ \A i \in log[r].vfail :
               Recorded(r, i) =>
                   /\ ~checkResults[r][i].passed
                   /\ checkResults[r][i].checks.w3cValidation.status = "fail"
                   /\ checkResults[r][i].checks.w3cValidation.message
                          = <<"Error in W3C validation: ", "Failed to validate HTML">>
                   /\ \A c \in Categories \ {"w3cValidation"} :
                          checkResults[r][i].checks[c] = ReturnedFor(r, i).checks[c]

\* a run with both kinds of failure, the validator failure on a file whose
\* runner checks did not all fail
C5_Witness ==
    \E r \in Runs :
        /\ \E i \in log[r].soft : Recorded(r, i)
        /\ \E i \in log[r].vfail :
               /\ Recorded(r, i)
               /\ checkResults[r][i].checks.singleH1.status = "pass"

\* C6: a soft per-file failure never makes checkRepo raise.  A run is only
\* ever aborted by a failed listing or by a BrowserError; a run that returns
\* answers 200 with one record per markup file, the records of the files
\* without a runner failure carrying the runner's own three checks; and after
\* a soft failure the run goes on to return, unless a later page call meets
\* a dead browser and checkHtmlFile throws a BrowserError.
C6_SoftFailureNeverRaises ==
    /\ [](\A r \in Runs :
            pc[r] = "Aborted" => log[r].listing # "none" \/ log[r].fatalAt # 0)
    /\ [](\A r \in Runs :
            pc[r] = "Done" =>
                /\ error[r] = NoError
                /\ httpStatus[r] = 200
                /\ Len(result[r].details) = Len(htmlFiles[r])
                /\ \A i \in 1..Len(htmlFiles[r]) :
                       i \notin log[r].soft =>
                           \A c \in Categories \ {"w3cValidation"} :
                               result[r].details[i].checks[c] = ReturnedFor(r, i).checks[c])
    /\ \A r \in Runs :
           (log[r].soft \cup log[r].vfail # {}) ~> (pc[r] = "Done" \/ log[r].fatalAt # 0)

\* a returned result whose first file failed softly in the runner, whose
\* second file failed in the validator and whose third file passed
C6_Witness ==
    \E r \in Runs :
        /\ pc[r] = "Done"
        /\ 1 \in log[r].soft
        /\ 2 \in log[r].vfail
        /\ Len(result[r].details) = 3
        /\ result[r].details[3].passed

\* C7: a listing that fails with 404 leaves checkRepo as RepoNotFoundError
\* (answered 404), one that fails with ENOTFOUND as NetworkError (answered 502).
C7_ListingFailureClassified ==
    \A r \in Runs :
        /\ log[r].listing = "404" =>
               pc[r] = "Aborted" /\ error[r].kind = "RepoNotFoundError" /\ httpStatus[r] = 404
        /\ log[r].listing = "ENOTFOUND" =>
               pc[r] = "Aborted" /\ error[r].kind = "NetworkError" /\ httpStatus[r] = 502

\* C8: once a listing request of the traversal has failed, the run is aborted
\* with no page ever opened, no validator call, no record and no result.
C8_ListingFailureAbortsBeforeChecks ==
    \A r \in Runs :
        log[r].listing # "none" =>
            /\ pc[r] = "Aborted"
            /\ log[r].opened = 0
            /\ openPages[r] = 0
            /\ log[r].validated = <<>>
            /\ checkResults[r] = <<>>
            /\ htmlFiles[r] = <<>>
            /\ result[r] = NoResult

\* the listing of a subdirectory failed after the root listing had already
\* yielded a markup file
C8_Witness ==
    \E r \in Runs :
        /\ log[r].listing # "none"
        /\ Len(fstack[r]) >= 1
        /\ \E k \in 1..Len(fstack[r][1].files) : fstack[r][1].files[k].type = "HTML"

\* C9: outside a call of checkHtmlFile the run has no page open: the page is
\* closed when the validator is called, when the next page is about to be
\* opened, and when checkRepo has returned or thrown.
C9_PageClosedOnEveryExit ==
    \A r \in Runs :
        ~InCall(r) => openPages[r] = 0 /\ page[r] # "open"

\* the browser is alive, checkHtmlFile has just returned for one file and
\* had thrown a soft error for an earlier one
C9_Witness ==
    \E r \in Runs :
        /\ browser = "up"
        /\ pc[r] = "Validate"
        /\ log[r].soft # {}
        /\ log[r].opened >= 2

\* C10: a run never has more than one page open, also while another run has
\* a page open on the same browser.
C10_OnePagePerRun ==
    \A r \in Runs : openPages[r] <= 1

\* both runs have a page open, one of them for its second file
C10_Witness ==
    /\ \A r \in Runs : openPages[r] = 1
    /\ \E r \in Runs : idx[r] = 2 /\ log[r].opened = 2

\* C11: a returned result has exactly one record per HTML file of the list
\* fetchRepo returned, in the order of that list, and totalFiles is their
\* number; with no HTML file all counts are 0, no page was opened and the
\* validator was never called.
C11_OneRecordPerMarkupFile ==
    \A r \in Runs :
        pc[r] = "Done" =>
            LET markup == SelectSeq(log[r].files, LAMBDA f : f.type = "HTML") IN
            /\ Len(result[r].details) = Len(markup)
            /\ result[r].summary.totalFiles = Len(markup)
            /\ \A k \in 1..Len(markup) : result[r].details[k].fileName = markup[k].path
            /\ markup = <<>> =>
                   /\ \A f \in SummaryFields :
                          result[r].summary[f].passed = 0 /\ result[r].summary[f].failed = 0
                   /\ log[r].opened = 0
                   /\ log[r].validated = <<>>

\* a returned result over a fetched list of three HTML files among files of
\* other types, one of the HTML files having failed softly
C11_Witness ==
    \E r \in Runs :
        /\ pc[r] = "Done"
        /\ Len(log[r].files) > 3
        /\ Len(result[r].details) = 3
        /\ log[r].soft # {}
        /\ \E k \in 1..3 : result[r].details[k].passed

\* the text the download URL of the i-th HTML file of run r serves
RawContent(r, i) == web[htmlFiles[r][i].url].text

\* C12 as stated: the markup submitted to the validator for a file is the
\* raw content fetched from the file's URL.
C12_ValidatorGetsRawContent ==
    \A r \in Runs : \A k \in 1..Len(log[r].validated) :
        log[r].validated[k].html = RawContent(r, log[r].validated[k].at)

\* C12 amended: the markup submitted to the validator for a file is the
\* entity-decoded string that was injected into the page for that file, which
\* differs from the raw content whenever the raw content holds an entity.
C12_ValidatorGetsInjectedContent ==
    \A r \in Runs : \A k \in 1..Len(log[r].validated) :
        LET v == log[r].validated[k] IN
        /\ \E j \in 1..Len(log[r].injected) :
               log[r].injected[j].at = v.at /\ log[r].injected[j].html = v.html
        /\ (\E e \in Entities : includes(RawContent(r, v.at), e.enc)) =>
               v.html # RawContent(r, v.at)

\* a file whose raw content holds an entity has been submitted to the validator
C12_Witness ==
    \E r \in Runs : \E k \in 1..Len(log[r].validated) :
        /\ includes(RawContent(r, log[r].validated[k].at), <<"&", "l", "t", ";">>)
        /\ log[r].validated[k].html # RawContent(r, log[r].validated[k].at)

\* the messages the validator answers with for the i-th HTML file of run r
ValidatorMessages(r, i) == web[htmlFiles[r][i].url].messages

\* C13: for a file the validator answered for, the recorded w3cValidation is
\* 'pass' iff the answer holds no message of type 'error', and on 'fail' its
\* details are one line "Line <lastLine>: <message>" per error, in order; the
\* recorded status is the outcome of the validator call (a failed call being
\* 'fail'), never the placeholder the runner returned.
C13_ValidatorOutcomeRecorded ==
    \A r \in Runs : \A k \in 1..Len(log[r].validated) :
        LET i == log[r].validated[k].at
            w == checkResults[r][i].checks.w3cValidation
            errors == SelectSeq(ValidatorMessages(r, i), LAMBDA m : m.type = "error")
        IN  /\ log[r].validated[k].checkResult.checks.w3cValidation = w3cPlaceholder
            /\ w.message # w3cPlaceholder.message
            /\ w.status \in {"pass", "fail"}
            /\ i \in log[r].vfail => w.status = "fail" /\ w.details = <<>>
            /\ i \notin log[r].vfail =>
                   /\ w.status = "pass" <=> errors = <<>>
                   /\ Len(w.details) = Len(errors)
                   /\ \A j \in 1..Len(errors) :
                          w.details[j] = <<"Line ", ToString(errors[j].lastLine), ": ",
                                           errors[j].message>>

\* the validator answered with an error, a message of another type and a
\* second error, and the record holds the two error lines
C13_Witness ==
    \E r \in Runs : \E k \in 1..Len(log[r].validated) :
        LET i == log[r].validated[k].at
            msgs == ValidatorMessages(r, i)
        IN  /\ i \notin log[r].vfail
            /\ Len(msgs) >= 2
            /\ \E a, b \in 1..Len(msgs) : msgs[a].type = "error" /\ msgs[b].type # "error"
            /\ checkResults[r][i].checks.w3cValidation.status = "fail"
            /\ Len(checkResults[r][i].checks.w3cValidation.details) = 1

\* `name` ends with `ext` whatever the case of its letters; `EXT` is `ext` in
\* capitals
EndsWithAnyCase(name, ext, EXT) ==
    /\ Len(name) >= Len(ext)
    /\ \A j \in 1..Len(ext) : name[Len(name) - Len(ext) + j] \in {ext[j], EXT[j]}

Extension(name) ==
    CASE EndsWithAnyCase(name, <<".", "h", "t", "m", "l">>, <<".", "H", "T", "M", "L">>)
             -> "HTML"
      [] EndsWithAnyCase(name, <<".", "c", "s", "s">>, <<".", "C", "S", "S">>) -> "CSS"
      [] EndsWithAnyCase(name, <<".", "j", "s">>, <<".", "J", "S">>) -> "JavaScript"
      [] OTHER -> "none"

\* the depth-first flattening of a listing: a relevant file in its place, the
\* flattening of a directory in the directory's place, nothing for the rest
RECURSIVE Flatten(_)
Flatten(listing) ==
    IF listing = <<>> THEN <<>>
    ELSE LET item == Head(listing) IN
         (CASE item.type = "file" /\ Extension(item.name) # "none"
                   -> << [name |-> item.path, path |-> item.path,
                          type |-> Extension(item.name), url |-> item.download_url] >>
            [] item.type = "dir" -> Flatten(item.children)
            [] OTHER -> <<>>) \o Flatten(Tail(listing))

\* C14: the list fetchRepo returns is the depth-first flattening of the
\* repository tree in listing order: a 'file' entry is emitted iff its name
\* ends, in any case, with .html, .css or .js, with type HTML, CSS or
\* JavaScript; a 'dir' entry contributes the flattening of its listing at its
\* position; every other entry is ignored.
C14_FetchRepoFlattens ==
    \A r \in Runs : idx[r] >= 1 => log[r].files = Flatten(repo[r])

\* fetchRepo has returned for a listing holding an ignored entry and a
\* directory with a file before and a file after a subdirectory
C14_Witness ==
    \E r \in Runs :
        /\ idx[r] >= 1
        /\ Len(repo[r]) = 2
        /\ repo[r][1] \in {Htm, NoDot, Link}
        /\ repo[r][2] = Nested
        /\ Len(log[r].files) = 3
        /\ log[r].files[2].type = "JavaScript"

\* the word `w` occurs in `s` whatever the case of its letters; `W` is `w` in
\* capitals
ContainsAnyCase(s, w, W) ==
    \E i \in 0..(Len(s) - Len(w)) : \A j \in 1..Len(w) : s[i + j] \in {w[j], W[j]}

Flagged(img) ==
    \/ ~img.hasAlt
    \/ \A i \in 1..Len(img.alt) : img.alt[i] \in {" ", "\t", "\n"}
    \/ ContainsAnyCase(img.alt, <<"i", "m", "a", "g", "e">>, <<"I", "M", "A", "G", "E">>)
    \/ ContainsAnyCase(img.alt, <<"p", "i", "c", "t", "u", "r", "e">>,
                       <<"P", "I", "C", "T", "U", "R", "E">>)

\* run r has the result of page call `call` for its current file, and the
\* call did not reject
Answered(r, call) ==
    /\ pc[r] \in {"CheckSingleH1", "CheckImageAlts", "CheckHorizontalScrollbar",
                  "ClosePage", "Validate"}
    /\ checks[r][call] # NoCheck
    /\ \A x \in log[r].raised : ~(x.at = idx[r] /\ x.check = call)

\* C15: the image alt check flags an image iff its alt attribute is absent,
\* empty or whitespace-only, or contains 'image' or 'picture' in any case; it
\* fails iff some image is flagged, with one detail line per flagged image in
\* document order, numbered by the image's 1-based position among all images,
\* and passes otherwise with a message giving the total number of images.
C15_ImageAltsFlagged ==
    \A r \in Runs :
        Answered(r, "imageAlts") =>
            LET imgs == web[file(r).url].imgs
                flagged == {k \in 1..Len(imgs) : Flagged(imgs[k])}
                c == checks[r].imageAlts
            IN  /\ c.status = "fail" <=> flagged # {}
                /\ c.status = "pass" <=> flagged = {}
                /\ Len(c.details) = Cardinality(flagged)
                /\ \A k \in flagged :
                       LET line == c.details[Cardinality({m \in flagged : m <= k})]
                       IN  line[1] = "Image #" /\ line[2] = ToString(k)
                /\ c.status = "pass" =>
                       c.message = <<"All ", ToString(Len(imgs)),
                                     " images have appropriate alt attributes">>

\* the check has answered for a document whose first image is fine and whose
\* second image is flagged for a word written in capitals
C15_Witness ==
    \E r \in Runs :
        /\ Answered(r, "imageAlts")
        /\ Len(web[file(r).url].imgs) = 2
        /\ ~Flagged(web[file(r).url].imgs[1])
        /\ web[file(r).url].imgs[2].alt = <<"a", " ", "P", "I", "C", "T", "U", "R", "E", "!">>
        /\ checks[r].imageAlts.status = "fail"
        /\ checks[r].imageAlts.details[1][2] = "2"

\* C16: the sweep sets the viewports 320, 330, ..., 1920 in increasing order,
\* all at height 1080, and stops at the first width at which the page is
\* wider than the viewport; it fails naming exactly that width, no larger
\* width having been set, and passes iff none of the 161 widths overflows.
C16_SweepStopsAtFirstOverflow ==
    \A r \in Runs :
        Answered(r, "horizontalScrollbar") =>
            LET overflow == web[file(r).url].overflow
                v == log[r].viewports
                c == checks[r].horizontalScrollbar
                sampled == {w \in 320..1920 : (w - 320) % 10 = 0}
            IN  /\ Len(v) >= 1 /\ v[1].width = 320
                /\ \A k \in 1..Len(v) : v[k].height = 1080 /\ v[k].width <= 1920
                /\ \A k \in 1..(Len(v) - 1) :
                       v[k + 1].width = v[k].width + 10 /\ v[k].width \notin overflow
                /\ c.status \in {"pass", "fail"}
                /\ c.status = "fail" =>
                       /\ v[Len(v)].width \in overflow
                       /\ c.message = <<"Horizontal scrollbar detected at ",
                                        ToString(v[Len(v)].width), "px width">>
                /\ c.status = "pass" <=> sampled \cap overflow = {}
                /\ c.status = "pass" => Len(v) = 161

\* the sweep has answered for a document that overflows at 325 (never set),
\* at 1000 and at 1920: it stopped at 1000
C16_Witness ==
    \E r \in Runs :
        /\ Answered(r, "horizontalScrollbar")
        /\ web[file(r).url].overflow = {325, 1000, 1920}
        /\ checks[r].horizontalScrollbar.status = "fail"
        /\ log[r].viewports[Len(log[r].viewports)].width = 1000

\* C17: the single-h1 check is decided by the number N of h1 elements alone,
\* whatever else the document holds: N = 1 passes, N = 0 fails with 'No h1
\* found', N >= 2 fails with 'More than one h1 found (N)'.
C17_SingleH1ByCount ==
    \A r \in Runs :
        Answered(r, "singleH1") =>
            LET N == web[file(r).url].h1
                c == checks[r].singleH1
            IN  /\ N = 1 => c.status = "pass"
                /\ N = 0 => c.status = "fail" /\ c.message = <<"No h1 found">>
                /\ N >= 2 => /\ c.status = "fail"
                             /\ c.message = <<"More than one h1 found (", ToString(N), ")">>

\* the check has answered for a document with three h1 elements and a
\* heading of another level
C17_Witness ==
    \E r \in Runs :
        /\ Answered(r, "singleH1")
        /\ web[file(r).url].h1 = 3
        /\ web[file(r).url].h2 = 1
        /\ checks[r].singleH1.message[2] = "3"

\* `decoded` is `raw` with every occurrence of an entity replaced by its
\* character and every other character kept.  The occurrences are those of
\* `raw` itself; no two of them overlap, an entity holding '&' only in front.
ReplacedOnce(raw, decoded) ==
    LET EntityAt(i) == CHOOSE e \in Entities : startsWithAt(raw, i, e.enc)
        Occ == {i \in 1..Len(raw) : \E e \in Entities : startsWithAt(raw, i, e.enc)}
        Swallowed == {q \in 1..Len(raw) :
                         \E i \in Occ : i < q /\ q < i + Len(EntityAt(i).enc)}
        Pos(p) == p - Cardinality({q \in Swallowed : q < p})
    IN  /\ Len(decoded) = Len(raw) - Cardinality(Swallowed)
        /\ \A p \in (1..Len(raw)) \ Swallowed :
               decoded[Pos(p)] = IF p \in Occ THEN EntityAt(p).dec ELSE raw[p]

\* C18: the markup set into the page is the downloaded text with every
\* occurrence of &lt; &gt; &amp; &quot; &#39; replaced by < > & " ' and every
\* other character unchanged; a text holding none of the five is unchanged;
\* text produced by a replacement is not decoded again: '&amp;lt;' gives '&lt;'.
C18_DecodesEachEntityOnce ==
    \A r \in Runs : \A j \in 1..Len(log[r].injected) :
        LET raw == RawContent(r, log[r].injected[j].at)
            decoded == log[r].injected[j].html
        IN  /\ ReplacedOnce(raw, decoded)
            /\ (\A e \in Entities : ~includes(raw, e.enc)) => decoded = raw
            /\ raw = <<"&", "a", "m", "p", ";", "l", "t", ";">> =>
                   decoded = <<"&", "l", "t", ";">>

\* '&amp;lt;' has been downloaded and set into the page as '&lt;', which
\* decoding a second time would change
C18_Witness ==
    \E r \in Runs : \E j \in 1..Len(log[r].injected) :
        /\ RawContent(r, log[r].injected[j].at) = <<"&", "a", "m", "p", ";", "l", "t", ";">>
        /\ log[r].injected[j].html = <<"&", "l", "t", ";">>
        /\ decodeHtmlEntities(log[r].injected[j].html) # log[r].injected[j].html

\* the phase of run r: the per-file phase is the iteration idx[r] of the loop
Phase(r) ==
    IF pc[r] \in {"Idle", "Fetching", "Aggregating", "Done", "Aborted"} THEN pc[r]
    ELSE "PerFileChecking"

Ended(r) == pc[r] \in {"Done", "Aborted"}

\* the steps of run r the phase order allows
PhaseStep(r) ==
    LET p == Phase(r)
        q == Phase(r)'
        n == Len(htmlFiles[r])
        sameFile == /\ q = "PerFileChecking" /\ idx'[r] = idx[r]
                    /\ checkResults'[r] = checkResults[r]
    IN  CASE p = "Idle" -> q = "Idle"
          [] p = "Fetching" ->
                 \/ q = "Fetching" /\ checkResults'[r] = <<>>
                 \/ /\ q = "PerFileChecking" /\ idx'[r] = 1
                    /\ htmlFiles'[r] # <<>> /\ checkResults'[r] = <<>>
                 \/ q = "Aggregating" /\ htmlFiles'[r] = <<>> /\ checkResults'[r] = <<>>
                 \/ q = "Aborted"
          [] p = "PerFileChecking" ->
                 \/ sameFile
                 \/ /\ q = "PerFileChecking" /\ idx[r] < n /\ idx'[r] = idx[r] + 1
                    /\ Len(checkResults'[r]) = idx[r]
                 \/ q = "Aggregating" /\ idx[r] = n /\ Len(checkResults'[r]) = n
                 \/ q = "Aborted" /\ checkResults'[r] = checkResults[r]
          [] p = "Aggregating" ->
                 /\ q \in {"Aggregating", "Done"}
                 /\ checkResults'[r] = checkResults[r]
                 /\ log'[r] = log[r]
          [] OTHER ->
                 /\ q = p
                 /\ checkResults'[r] = checkResults[r]
                 /\ log'[r] = log[r]
                 /\ result'[r] = result[r]
                 /\ error'[r] = error[r]

\* what holds of run r in each phase
PhaseInv(r) ==
    /\ Phase(r) = "PerFileChecking" =>
           idx[r] \in 1..Len(htmlFiles[r]) /\ Len(checkResults[r]) = idx[r] - 1
    /\ Phase(r) \in {"Aggregating", "Done"} =>
           /\ Len(checkResults[r]) = Len(htmlFiles[r])
           /\ \A k \in 1..Len(htmlFiles[r]) :
                  checkResults[r][k].fileName = htmlFiles[r][k].path
    /\ Phase(r) = "Done" <=> result[r] # NoResult
    /\ Phase(r) = "Aborted" <=> error[r] # NoError

\* C19: a run goes Fetching -> PerFileChecking[1..n] in increasing order ->
\* Aggregating -> Done; Aggregating is entered only when each of the n files
\* has exactly one record; Done (a result is returned) and Aborted (an error
\* is raised) are final and exclude each other; nothing is checked once
\* Aggregating or Aborted is reached; Aborted is entered only from Fetching
\* or a per-file iteration; and a run whose listing requests settle ends in
\* Done or Aborted.
C19_PhaseOrder ==
    /\ [][\A r \in Runs : PhaseStep(r)]_vars
    /\ [](\A r \in Runs : PhaseInv(r))
    /\ \A r \in Runs : <>[](pc[r] \in {"Idle", "Fetching"}) \/ <>Ended(r)

\* a run has aborted in its second per-file iteration, one record pushed
C19_Witness ==
    \E r \in Runs :
        /\ pc[r] = "Aborted"
        /\ log[r].fatalAt = 2
        /\ Len(checkResults[r]) = 1
        /\ Len(htmlFiles[r]) >= 2

StructuralChecks == {"singleH1", "imageAlts", "horizontalScrollbar"}

\* the text a check puts in front of the message of the error it caught
CaughtPrefix(check) ==
    CASE check = "singleH1" -> "Error checking h1: "
      [] check = "imageAlts" -> "Error checking image alts: "
      [] check = "horizontalScrollbar" -> "Error checking for horizontal scrollbar: "

\* the status a structural check gives a document when its page call answers
StatusFor(check, doc) ==
    LET passes ==
            CASE check = "singleH1" -> doc.h1 = 1
              [] check = "imageAlts" -> \A k \in 1..Len(doc.imgs) : ~Flagged(doc.imgs[k])
              [] check = "horizontalScrollbar" ->
                     \A w \in 320..1920 : (w - 320) % 10 = 0 => w \notin doc.overflow
    IN  IF passes THEN "pass" ELSE "fail"

\* C20: an exception raised inside one of the three structural checks by a
\* usable engine is caught in that check and becomes a 'fail' result whose
\* message carries the error text; the other checks of the file still run and
\* keep their own outcome, checkHtmlFile does not throw, the validator is
\* called for the file, and the file gets its record.
C20_CheckFailureStaysInCheck ==
    \A r \in Runs : \A x \in log[r].raised :
        ~messageIncludes(x.error.message, "Target closed") =>
            /\ x.at \notin log[r].soft
            /\ x.at # log[r].fatalAt
            /\ x.at = idx[r] /\ InCall(r) =>
                   /\ exc[r] = NoError
                   /\ checks[r][x.check].status = "fail"
            /\ Recorded(r, x.at) =>
                   LET rec == checkResults[r][x.at]
                       doc == web[htmlFiles[r][x.at].url]
                   IN  /\ rec.checks[x.check].status = "fail"
                       /\ rec.checks[x.check].message =
                              <<CaughtPrefix(x.check)>> \o x.error.message
                       /\ ~rec.passed
                       /\ \E k \in 1..Len(log[r].validated) : log[r].validated[k].at = x.at
                       /\ \A c \in StructuralChecks :
                              (\A y \in log[r].raised : ~(y.at = x.at /\ y.check = c)) =>
                                  rec.checks[c].status = StatusFor(c, doc)
            /\ ~Recorded(r, x.at) => x.at = idx[r] /\ (InCall(r) \/ pc[r] = "Validate")

\* the h1 check of a file that passes everything else raised a timeout: the
\* record has that check failed and the three others passed
C20_Witness ==
    \E r \in Runs : \E x \in log[r].raised :
        /\ x.check = "singleH1"
        /\ x.error = Timeout
        /\ Recorded(r, x.at)
        /\ checkResults[r][x.at].checks.singleH1.status = "fail"
        /\ \A c \in Categories \ {"singleH1"} :
               checkResults[r][x.at].checks[c].status = "pass"

\* C21: the error of an aborted run is a BrowserError, a RepoNotFoundError,
\* a NetworkError or an UnknownError, never the HttpException of the fetch or
\* a plain Error, so the controller answers with the error's own message and
\* never with 'An unexpected error occurred'.
C21_OnlyClassifiedErrorsLeave ==
    \A r \in Runs :
        /\ pc[r] = "Aborted" =>
               /\ error[r].kind \in {"BrowserError", "RepoNotFoundError", "NetworkError",
                                     "UnknownError"}
               /\ controllerMessage(error[r]) = error[r].message
               /\ controllerMessage(error[r]) # <<"An unexpected error occurred">>
               /\ httpStatus[r] \in {404, 500, 502}
        /\ pc[r] # "Aborted" => error[r] = NoError

\* a run aborted by a listing request answered 403: the HttpException of
\* fetchDirectory has left checkRepo as an UnknownError
C21_Witness ==
    \E r \in Runs :
        /\ pc[r] = "Aborted"
        /\ log[r].listing = "403"
        /\ error[r].kind = "UnknownError"
        /\ error[r].message[1] = "Failed to check repository: "

\* the status run r alone gets for category c of its i-th HTML file from the
\* answers the run received for that file
StatusAlone(r, i, c) ==
    LET doc == web[htmlFiles[r][i].url] IN
    IF i \in log[r].soft THEN "fail"
    ELSE IF c = "w3cValidation"
    THEN IF i \in log[r].vfail \/ \E k \in 1..Len(doc.messages) : doc.messages[k].type = "error"
         THEN "fail" ELSE "pass"
    ELSE IF \E x \in log[r].raised : x.at = i /\ x.check = c THEN "fail"
    ELSE StatusFor(c, doc)

SummaryField(c) ==
    CASE c = "singleH1" -> "h1Checks"
      [] c = "imageAlts" -> "imageAltChecks"
      [] c = "w3cValidation" -> "w3cValidation"
      [] c = "horizontalScrollbar" -> "horizontalScrollbarChecks"

\* what belongs to run r alone: the locals of its checkRepo and checkHtmlFile
\* calls, its answer, and what it has seen
Locals(r) ==
    <<pc[r], fstack[r], fdir[r], htmlFiles[r], idx[r], page[r], response[r], content[r],
      checks[r], exc[r], checkResults[r], result[r], error[r], httpStatus[r], faults[r],
      log[r]>>

\* the records and the result of run r are those of its own files, decided
\* by the answers the run received
OwnResult(r) ==
    LET own == SelectSeq(Flatten(repo[r]), LAMBDA f : f.type = "HTML") IN
    /\ \A i \in 1..Len(checkResults[r]) :
           /\ checkResults[r][i].fileName = own[i].path
           /\ \A c \in Categories :
                  checkResults[r][i].checks[c].status = StatusAlone(r, i, c)
           /\ checkResults[r][i].passed <=>
                  \A c \in Categories : StatusAlone(r, i, c) = "pass"
    /\ pc[r] = "Done" =>
           /\ result[r].details = checkResults[r]
           /\ Len(result[r].details) = Len(own)
           /\ result[r].summary.totalFiles = Len(own)
           /\ \A c \in Categories :
                  /\ result[r].summary[SummaryField(c)].passed =
                         Cardinality({i \in 1..Len(own) : StatusAlone(r, i, c) = "pass"})
                  /\ result[r].summary[SummaryField(c)].failed =
                         Cardinality({i \in 1..Len(own) : StatusAlone(r, i, c) = "fail"})

\* a step changes the locals of one run at most, and the loss of the browser
\* changes the locals of none
OneRunSteps ==
    /\ \A r, q \in Runs : Locals(r)' # Locals(r) /\ Locals(q)' # Locals(q) => r = q
    /\ browser' # browser => \A r \in Runs : Locals(r)' = Locals(r)

\* C22: with two runs interleaved on the same service instances, the records
\* and the result of each run are those of its own repository's files and
\* are decided by the answers that run received, as when it runs alone; a
\* step of one run, a soft failure of a file included, changes no record, no
\* count and no other local of the other run.
C22_RunsDoNotInterfere ==
    /\ [](\A r \in Runs : OwnResult(r))
    /\ [][OneRunSteps]_vars

\* one run has returned a result whose only file failed softly while the
\* other run, one record pushed, is inside the check of its second file
C22_Witness ==
    \E r, q \in Runs :
        /\ pc[r] = "Done"
        /\ log[r].soft = {1}
        /\ result[r].summary.h1Checks.failed = 1
        /\ pc[q] = "Validate"
        /\ idx[q] = 2
        /\ Len(checkResults[q]) = 1

====
